---- MODULE Spec2Model ----
(***************************************************************************)
(* Product service of the inventory API (services/productService.ts) over  *)
(* a Firestore collection: CRUD plus the transactional stock adjustments,  *)
(* run by concurrent callers.  Every await on the Firestore client is a    *)
(* step of its own, and so is the code of a call that runs before its      *)
(* first await or inside the update function of a transaction.             *)
(*                                                                         *)
(* Firestore is the environment.  A get, set, update or delete of one      *)
(* document is atomic.  A transaction is serializable: its commit succeeds *)
(* only if no write to a document it has read was committed since the      *)
(* read; otherwise runTransaction runs the update function again, and      *)
(* rejects once its attempts are used up.  An error thrown by the update   *)
(* function rolls the transaction back and is rethrown without a retry.    *)
(***************************************************************************)
EXTENDS Integers, FiniteSets, Sequences, TLC

\* ------------------------------------------------------------------ bounds
NumCallers == 2       \* concurrent callers of the service
MaxIds == 2           \* document ids the collection can generate
MaxClock == 1         \* ticks of the wall clock
MaxAttempts == 2      \* attempts of one runTransaction (the SDK's default is 5)
MaxCalls == 3         \* service calls in one behaviour

Callers == 1..NumCallers
Ids == 1..MaxIds
BogusId == 0          \* an id no document was ever stored under
AllIds == Ids \cup {BogusId}

\* ------------------------------------------------------------------ JS values
\* A number is v, or v + 0.5 when half: enough to tell integers from the rest.
Undefined == [t |-> "undefined"]
Num(v) == [t |-> "number", v |-> v, half |-> FALSE]
Frac(v) == [t |-> "number", v |-> v, half |-> TRUE]
Str(s) == [t |-> "string", s |-> s]

\* Number.isInteger(x)
IsInteger(x) == x.t = "number" /\ ~x.half
\* x < 0 and x <= 0 for a number x
LtZero(x) == x.v < 0
LeZero(x) == x.v < 0 \/ (x.v = 0 /\ ~x.half)
\* !x for a string, a number or undefined x
Falsy(x) ==
    \/ x.t = "undefined"
    \/ x.t = "string" /\ x.s = ""
    \/ x.t = "number" /\ x.v = 0 /\ ~x.half
\* does object o carry key k with a value other than undefined
Has(o, k) == k \in DOMAIN o /\ o[k] # Undefined

\* ------------------------------------------------------------------ results
\* What the caller gets: the value returned, or the error thrown as handleError
\* reports it (status of an HttpError, 500 for any other error).
Ok(body) == [status |-> 200, error |-> "", body |-> body]
HttpError(status, message) == [status |-> status, error |-> message, body |-> Undefined]
\* an error of the Firestore client, which is no HttpError
FirestoreError(message) == [status |-> 500, error |-> message, body |-> Undefined]

NoDoc == Undefined
NoSnap == [exists |-> FALSE, data |-> Undefined]

VARIABLES
    store,      \* the collection: id -> document data, or NoDoc
    nextId,     \* the next id collection.doc() generates
    now,        \* the wall clock read by new Date()
    call,       \* caller -> the call it is running and its locals
    calls,      \* calls started so far
    base,       \* history: id -> stock_quantity last set by create or update
    net,        \* history: id -> sum of the adjustments committed since
    deleted     \* history: ids whose document a delete removed

vars == <<store, nextId, now, call, calls, base, net, deleted>>

Idle ==
    [pc |-> "idle", op |-> "none", id |-> BogusId, amount |-> Undefined,
     payload |-> Undefined, snap |-> NoSnap, updated |-> 0, ts |-> 0,
     attempt |-> 0, read |-> FALSE, stale |-> FALSE, res |-> Undefined,
     commits |-> 0, stored |-> Undefined, serial |-> 0,
     input |-> Undefined, n |-> 0]

\* The call is over: its result is res, its locals are gone.
Done(cl, res) ==
    [cl EXCEPT !.pc = "done", !.res = res, !.payload = Undefined,
               !.snap = NoSnap, !.updated = 0, !.ts = 0,
               !.read = FALSE, !.stale = FALSE]

\* DocumentReference.get()
Get(i) == IF store[i] = NoDoc THEN NoSnap ELSE [exists |-> TRUE, data |-> store[i]]

\* Ids a caller can hold: those a document was stored under, and a bogus one.
KnownIds == {i \in Ids : store[i] # NoDoc \/ i \in deleted} \cup {BogusId}

\* Variant: a commit puts every running transaction in conflict, whatever
\* document it has read.
ConflictsAnyId(cl, i, c) ==
    [d \in Callers |->
        IF d # c /\ cl[d].read
        THEN [cl[d] EXCEPT !.stale = TRUE]
        ELSE cl[d]]

\* A write to document i by caller c is committed: every transaction of another
\* caller whose current attempt has read i is in conflict with it.
Conflicts(cl, i, c) ==
    [d \in Callers |->
        IF d # c /\ cl[d].id = i /\ cl[d].read
        THEN [cl[d] EXCEPT !.stale = TRUE]
        ELSE cl[d]]

\* The caller is between two calls.
Free(c) == call[c].pc \in {"idle", "done"}

\* ------------------------------------------------------------------ clock
Tick ==
    /\ now < MaxClock
    /\ now' = now + 1
    /\ UNCHANGED <<store, nextId, call, calls, base, net, deleted>>

\* ------------------------------------------------------------------ createProduct
\* Variant: the validation without the check of low_stock_threshold.
ValidCreateNoThreshold(p) ==
    /\ ~Falsy(p.name) /\ p.name.t = "string"
    /\ IsInteger(p.stock_quantity) /\ ~LtZero(p.stock_quantity)

ValidCreate(p) ==
    /\ ~Falsy(p.name) /\ p.name.t = "string"
    /\ IsInteger(p.stock_quantity) /\ ~LtZero(p.stock_quantity)
    /\ p.low_stock_threshold # Undefined =>
          IsInteger(p.low_stock_threshold) /\ ~LtZero(p.low_stock_threshold)

CreateError(p) ==
    IF Falsy(p.name) \/ p.name.t # "string"
    THEN HttpError(400, "Product name is required")
    ELSE IF ~IsInteger(p.stock_quantity) \/ LtZero(p.stock_quantity)
    THEN HttpError(400, "stock_quantity must be an integer >= 0")
    ELSE HttpError(400, "low_stock_threshold must be an integer >= 0 when provided")

\* docData of createProduct: the keys of the payload other than the four
\* fields are spread last, over the id and the timestamps generated
DocData(p, id, t) ==
    [id |-> IF Has(p, "id") THEN p.id.s ELSE id,
     name |-> p.name.s,
     description |-> IF p.description = Undefined THEN "" ELSE p.description.s,
     stock_quantity |-> p.stock_quantity.v,
     low_stock_threshold |-> p.low_stock_threshold,
     createdAt |-> IF Has(p, "createdAt") THEN p.createdAt.s ELSE t,
     updatedAt |-> IF Has(p, "updatedAt") THEN p.updatedAt.s ELSE t]

\* createProduct up to its await: validation, the timestamp, the generated id
CreateCall(c, p) ==
    /\ Free(c)
    /\ calls < MaxCalls
    /\ calls' = calls + 1
    /\ IF ~ValidCreate(p)
       THEN /\ call' = [call EXCEPT ![c] =
                    Done([Idle EXCEPT !.op = "createProduct", !.input = p],
                         CreateError(p))]
            /\ UNCHANGED nextId
       ELSE /\ nextId <= MaxIds
            /\ nextId' = nextId + 1
            /\ call' = [call EXCEPT ![c] =
                    [Idle EXCEPT !.pc = "create_set", !.op = "createProduct",
                                 !.id = nextId, !.input = p,
                                 !.payload = DocData(p, nextId, now)]]
    /\ UNCHANGED <<store, now, base, net, deleted>>

\* await docRef.set(docData); return docData
CreateSet(c) ==
    /\ call[c].pc = "create_set"
    /\ store' = [store EXCEPT ![call[c].id] = call[c].payload]
    /\ base' = [base EXCEPT ![call[c].id] = call[c].payload.stock_quantity]
    /\ net' = [net EXCEPT ![call[c].id] = 0]
    /\ call' = [call EXCEPT ![c] = Done(call[c], Ok(call[c].payload))]
    /\ UNCHANGED <<nextId, now, calls, deleted>>

\* ------------------------------------------------------------------ updateProduct
\* payload: the allowed keys of updates that are not undefined
ValidUpdate(u) ==
    /\ Has(u, "stock_quantity") =>
          IsInteger(u.stock_quantity) /\ ~LtZero(u.stock_quantity)
    /\ Has(u, "low_stock_threshold") =>
          IsInteger(u.low_stock_threshold) /\ ~LtZero(u.low_stock_threshold)

UpdateError(u) ==
    IF Has(u, "stock_quantity")
       /\ (~IsInteger(u.stock_quantity) \/ LtZero(u.stock_quantity))
    THEN HttpError(400, "stock_quantity must be an integer >= 0")
    ELSE HttpError(400, "low_stock_threshold must be an integer >= 0")

Allowed == {"name", "description", "stock_quantity", "low_stock_threshold"}

\* Variant: every key of updates goes into payload.
AllowedPayloadAll(updates) == updates

\* payload: for (const k of allowed) if (updates[k] !== undefined) payload[k] = it
AllowedPayload(updates) ==
    [k \in Allowed |-> IF Has(updates, k) THEN updates[k] ELSE Undefined]

\* the value a document holds for key k when x was written to it
Field(k, x) ==
    IF k = "low_stock_threshold" THEN x
    ELSE IF x.t = "string" THEN x.s ELSE x.v

\* the keys of payload, and updatedAt, written over the data of a document
Merge(doc, payload, t) ==
    [k \in DOMAIN doc \cup {x \in DOMAIN payload : Has(payload, x)} |->
        IF k = "updatedAt" THEN t
        ELSE IF Has(payload, k) THEN Field(k, payload[k])
        ELSE doc[k]]

\* Variant: update() that creates the document when there is none, as
\* set(payload, { merge: true }) would.
UpdateUpsert(doc, payload, t) ==
    Merge(IF doc = NoDoc
          THEN [id |-> BogusId, name |-> "", description |-> "",
                stock_quantity |-> 0, low_stock_threshold |-> Undefined,
                createdAt |-> t, updatedAt |-> t]
          ELSE doc, payload, t)

\* DocumentReference.update(payload): the new data, or NoDoc when it rejects
\* because there is no document to update
Update(doc, payload, t) ==
    IF doc = NoDoc THEN NoDoc ELSE Merge(doc, payload, t)

\* updateProduct up to its first await: payload, validation, payload.updatedAt
UpdateCall(c, i, u) ==
    /\ Free(c)
    /\ calls < MaxCalls
    /\ i \in KnownIds
    /\ calls' = calls + 1
    /\ call' = [call EXCEPT ![c] =
            IF ~ValidUpdate(AllowedPayload(u))
            THEN Done([Idle EXCEPT !.op = "updateProduct", !.id = i, !.input = u],
                      UpdateError(AllowedPayload(u)))
            ELSE [Idle EXCEPT !.pc = "upd_get", !.op = "updateProduct", !.id = i,
                              !.input = u, !.payload = AllowedPayload(u),
                              !.ts = now]]
    /\ UNCHANGED <<store, nextId, now, base, net, deleted>>

\* const snap = await ref.get(); if (!snap.exists) throw 404
UpdateGet(c) ==
    /\ call[c].pc = "upd_get"
    /\ call' = [call EXCEPT ![c] =
            IF ~Get(call[c].id).exists
            THEN Done(call[c], HttpError(404, "Product not found"))
            ELSE [call[c] EXCEPT !.pc = "upd_write", !.snap = Get(call[c].id)]]
    /\ UNCHANGED <<store, nextId, now, calls, base, net, deleted>>

\* await ref.update(payload): rejects with NOT_FOUND when the document is gone
UpdateWrite(c) ==
    LET i == call[c].id
        p == call[c].payload
    IN  /\ call[c].pc = "upd_write"
        /\ IF Update(store[i], p, call[c].ts) = NoDoc
           THEN /\ call' = [call EXCEPT ![c] =
                        Done(call[c], FirestoreError("NOT_FOUND"))]
                /\ UNCHANGED <<store, base, net>>
           ELSE /\ store' = [store EXCEPT ![i] = Update(store[i], p, call[c].ts)]
                /\ base' = [base EXCEPT ![i] =
                        IF Has(p, "stock_quantity") THEN p.stock_quantity.v ELSE @]
                /\ net' = [net EXCEPT ![i] =
                        IF Has(p, "stock_quantity") THEN 0 ELSE @]
                /\ call' = [Conflicts(call, i, c) EXCEPT ![c] =
                        [call[c] EXCEPT !.pc = "upd_read", !.commits = @ + 1]]
        /\ UNCHANGED <<nextId, now, calls, deleted>>

\* const updated = await ref.get(); return { id: updated.id, ...updated.data() }
UpdateRead(c) ==
    /\ call[c].pc = "upd_read"
    /\ call' = [call EXCEPT ![c] =
            Done(call[c], Ok(IF Get(call[c].id).exists THEN Get(call[c].id).data
                             ELSE [id |-> call[c].id]))]
    /\ UNCHANGED <<store, nextId, now, calls, base, net, deleted>>

\* ------------------------------------------------------------------ deleteProduct
\* const snap = await ref.get(); if (!snap.exists) throw 404
DeleteGet(c, i) ==
    /\ Free(c)
    /\ calls < MaxCalls
    /\ i \in KnownIds
    /\ calls' = calls + 1
    /\ call' = [call EXCEPT ![c] =
            IF ~Get(i).exists
            THEN Done([Idle EXCEPT !.op = "deleteProduct", !.id = i],
                      HttpError(404, "Product not found"))
            ELSE [Idle EXCEPT !.pc = "del_delete", !.op = "deleteProduct", !.id = i,
                              !.snap = Get(i)]]
    /\ UNCHANGED <<store, nextId, now, base, net, deleted>>

\* Variant: a delete that returns { id } and leaves the document stored.
DeleteSoft(c) ==
    LET i == call[c].id
    IN  /\ call[c].pc = "del_delete"
        /\ deleted' = deleted \cup {i}
        /\ call' = [call EXCEPT ![c] =
                Done([call[c] EXCEPT !.commits = @ + 1], Ok([id |-> i]))]
        /\ UNCHANGED <<store, nextId, now, calls, base, net>>

\* await ref.delete(); return { id }
DeleteDelete(c) ==
    LET i == call[c].id
    IN  /\ call[c].pc = "del_delete"
        /\ store' = [store EXCEPT ![i] = NoDoc]
        /\ deleted' = deleted \cup {i}
        /\ call' = [Conflicts(call, i, c) EXCEPT ![c] =
                Done([call[c] EXCEPT !.commits = @ + 1], Ok([id |-> i]))]
        /\ UNCHANGED <<nextId, now, calls, base, net>>

\* ------------------------------------------------------------------ increaseStock / decreaseStock
\* Variant: the amount check with amount < 0 for amount <= 0.
ValidAmountNonNegative(amount) == IsInteger(amount) /\ ~LtZero(amount)

\* if (!Number.isInteger(amount) || amount <= 0) throw 400
ValidAmount(amount) == IsInteger(amount) /\ ~LeZero(amount)

\* the call up to db.runTransaction
AdjustCall(c, op, i, amount) ==
    /\ Free(c)
    /\ calls < MaxCalls
    /\ i \in KnownIds
    /\ calls' = calls + 1
    /\ call' = [call EXCEPT ![c] =
            IF ~ValidAmount(amount)
            THEN Done([Idle EXCEPT !.op = op, !.id = i, !.amount = amount],
                      HttpError(400, "amount must be an integer > 0"))
            ELSE [Idle EXCEPT !.pc = "tx_get", !.op = op, !.id = i,
                              !.amount = amount, !.attempt = 1]]
    /\ UNCHANGED <<store, nextId, now, base, net, deleted>>

\* const snap = await tx.get(ref): the attempt has read the document
TxGet(c) ==
    /\ call[c].pc = "tx_get"
    /\ call' = [call EXCEPT ![c] =
            [call[c] EXCEPT !.pc = "tx_body", !.snap = Get(call[c].id),
                            !.read = TRUE]]
    /\ UNCHANGED <<store, nextId, now, calls, base, net, deleted>>

\* Variants of the sufficiency check: left out, off by one, and <= for <.
InsufficientUnchecked(op, current, amount) == FALSE
InsufficientOffByOne(op, current, amount) ==
    op = "decreaseStock" /\ current + 1 < amount.v
InsufficientAtBoundary(op, current, amount) ==
    op = "decreaseStock" /\ current <= amount.v

\* decreaseStock: if (current < amount) throw 400
Insufficient(op, current, amount) == op = "decreaseStock" /\ current < amount.v

\* Variant: the decrease computes what the increase computes.
UpdatedAdds(op, current, amount) == current + amount.v

\* const updated = current + amount / current - amount
Updated(op, current, amount) ==
    IF op = "increaseStock" THEN current + amount.v ELSE current - amount.v

\* The rest of the update function: the checks, updated, tx.update(ref, ...).
\* An HttpError thrown here rolls the transaction back and is not retried.
TxBody(c) ==
    LET snap == call[c].snap
        current == snap.data.stock_quantity
    IN  /\ call[c].pc = "tx_body"
        /\ call' = [call EXCEPT ![c] =
              IF ~snap.exists
              THEN Done(call[c], HttpError(404, "Product not found"))
              ELSE IF Insufficient(call[c].op, current, call[c].amount)
              THEN Done(call[c], HttpError(400, "Insufficient stock"))
              ELSE [call[c] EXCEPT !.pc = "tx_commit", !.ts = now,
                        !.updated = Updated(call[c].op, current, call[c].amount)]]
        /\ UNCHANGED <<store, nextId, now, calls, base, net, deleted>>

\* Variant: a commit that never detects a conflict.
TxConflictIgnored(c) == FALSE

\* The commit fails when a write to the document was committed since tx.get.
TxConflict(c) == call[c].stale

\* Variant: the retry keeps the snapshot read by the failed attempt.
RetryPcStale == "tx_body"

\* Where a failed attempt starts again: the update function runs from its top.
RetryPc == "tx_get"

\* Variant: the rejection of runTransaction is swallowed.
TxResultSwallowed(committed, id, newQty) ==
    Ok([id |-> id, stock_quantity |-> newQty])

\* What the call returns once runTransaction has settled: { id, stock_quantity:
\* newQty } when it resolved, the rejection when the attempts are used up.
TxResult(committed, id, newQty) ==
    IF committed THEN Ok([id |-> id, stock_quantity |-> newQty])
    ELSE FirestoreError("ABORTED")

\* Variant: the write replaces the document, as tx.set(ref, ...) would.
TxSet(doc, updated, ts) == [stock_quantity |-> updated, updatedAt |-> ts]

\* tx.update(ref, { stock_quantity: updated, updatedAt }) applied at the commit
TxUpdate(doc, updated, ts) ==
    [doc EXCEPT !.stock_quantity = updated, !.updatedAt = ts]

\* The commit of the attempt. On a conflict runTransaction runs the update
\* function again, up to MaxAttempts attempts, and then rejects.
TxCommit(c) ==
    LET i == call[c].id
        delta == IF call[c].op = "increaseStock" THEN call[c].amount.v
                 ELSE 0 - call[c].amount.v
    IN  /\ call[c].pc = "tx_commit"
        /\ IF TxConflict(c)
           THEN /\ call' = [call EXCEPT ![c] =
                      IF call[c].attempt < MaxAttempts
                      THEN [call[c] EXCEPT !.pc = RetryPc, !.attempt = @ + 1,
                                           !.read = FALSE, !.stale = FALSE]
                      ELSE Done(call[c], TxResult(FALSE, i, call[c].updated))]
                /\ UNCHANGED <<store, net>>
           ELSE /\ store' = [store EXCEPT ![i] =
                      TxUpdate(@, call[c].updated, call[c].ts)]
                /\ net' = [net EXCEPT ![i] = @ + delta]
                /\ call' = [Conflicts(call, i, c) EXCEPT ![c] =
                      Done([call[c] EXCEPT !.commits = @ + 1,
                                           !.stored = store'[i],
                                           !.serial = base[i] + net'[i]],
                           TxResult(TRUE, i, call[c].updated))]
        /\ UNCHANGED <<nextId, now, calls, base, deleted>>

\* ------------------------------------------------------------------ getProductById
\* { id: snap.id, ...snap.data() }: the id of the snapshot under the data
Item(id, data) ==
    [k \in {"id"} \cup DOMAIN data |-> IF k \in DOMAIN data THEN data[k] ELSE id]

\* Variant: a get that stamps the document it reads.
GetByIdTouch(c, i) ==
    /\ Free(c)
    /\ calls < MaxCalls
    /\ i \in KnownIds
    /\ calls' = calls + 1
    /\ call' = [call EXCEPT ![c] =
            Done([Idle EXCEPT !.op = "getProductById", !.id = i, !.n = calls + 1],
                 IF ~Get(i).exists THEN HttpError(404, "Product not found")
                 ELSE Ok(Item(i, Get(i).data)))]
    /\ store' = [store EXCEPT ![i] =
            IF @ = NoDoc THEN @ ELSE [@ EXCEPT !.updatedAt = calls + 1]]
    /\ UNCHANGED <<nextId, now, base, net, deleted>>

\* getProductById: the get, the 404, the data returned
GetById(c, i) ==
    /\ Free(c)
    /\ calls < MaxCalls
    /\ i \in KnownIds
    /\ calls' = calls + 1
    /\ call' = [call EXCEPT ![c] =
            Done([Idle EXCEPT !.op = "getProductById", !.id = i, !.n = calls + 1],
                 IF ~Get(i).exists THEN HttpError(404, "Product not found")
                 ELSE Ok(Item(i, Get(i).data)))]
    /\ UNCHANGED <<store, nextId, now, base, net, deleted>>

\* ------------------------------------------------------------------ listProducts / listLowStock
\* the ids documents are stored under
Stored == {i \in Ids : store[i] # NoDoc}

\* the orders a query can return the documents of S in
Orders(S) ==
    {f \in [1..Cardinality(S) -> S] : \A a, b \in DOMAIN f : a # b => f[a] # f[b]}

Min(a, b) == IF a < b THEN a ELSE b

\* Variant: orderBy('createdAt', 'asc')
BeforeAscending(x, y) == x.createdAt <= y.createdAt

\* orderBy('createdAt', 'desc'): may document x come before document y
Before(x, y) == x.createdAt >= y.createdAt

\* if (limit && Number.isInteger(limit) && limit > 0) q = q.limit(limit)
LimitApplies(limit) == ~Falsy(limit) /\ IsInteger(limit) /\ ~LeZero(limit)

\* what the query of listProducts can return: the ids in an order of the
\* query, documents with equal createdAt in any order, cut at the limit
QueryProducts(limit) ==
    {SubSeq(f, 1, IF LimitApplies(limit) THEN Min(limit.v, Len(f)) ELSE Len(f)) :
        f \in {g \in Orders(Stored) :
                  \A a, b \in DOMAIN g : a < b => Before(store[g[a]], store[g[b]])}}

\* snaps.forEach((s) => items.push({ id: s.id, ...s.data() }))
Items(ids) == [k \in DOMAIN ids |-> Item(ids[k], store[ids[k]])]

\* listProducts: the query and the items returned
ListProducts(c, limit) ==
    /\ Free(c)
    /\ calls < MaxCalls
    /\ calls' = calls + 1
    /\ \E ids \in QueryProducts(limit) :
          call' = [call EXCEPT ![c] =
              Done([Idle EXCEPT !.op = "listProducts", !.input = limit,
                                !.n = calls + 1, !.stored = ids],
                   Ok(Items(ids)))]
    /\ UNCHANGED <<store, nextId, now, base, net, deleted>>

\* stock q < threshold x, a number
LessThan(q, x) == q < x.v \/ (x.half /\ q = x.v)

\* Variant: the comparison with <= for <.
LowStockOrEqual(data) ==
    /\ Has(data, "low_stock_threshold")
    /\ data.low_stock_threshold.t = "number"
    /\ ~LessThan(data.low_stock_threshold.v, Num(data.stock_quantity))

\* where('low_stock_threshold', '!=', null), both fields numbers, and
\* data.stock_quantity < data.low_stock_threshold
LowStock(data) ==
    /\ Has(data, "low_stock_threshold")
    /\ data.low_stock_threshold.t = "number"
    /\ LessThan(data.stock_quantity, data.low_stock_threshold)

\* listLowStock: the query, the filter and the items returned, in any order
ListLowStock(c) ==
    /\ Free(c)
    /\ calls < MaxCalls
    /\ calls' = calls + 1
    /\ \E ids \in Orders({i \in Stored : LowStock(store[i])}) :
          call' = [call EXCEPT ![c] =
              Done([Idle EXCEPT !.op = "listLowStock", !.n = calls + 1,
                                !.stored = ids],
                   Ok(Items(ids)))]
    /\ UNCHANGED <<store, nextId, now, base, net, deleted>>

\* ------------------------------------------------------------------ inputs
Payload(name, description, stock_quantity, low_stock_threshold) ==
    [name |-> name, description |-> description,
     stock_quantity |-> stock_quantity, low_stock_threshold |-> low_stock_threshold]

CreatePayloads ==
    {Payload(Str("n1"), Undefined, Num(1), Undefined),
     Payload(Str("n1"), Undefined, Num(2), Num(1)),
     Payload(Str("n1"), Undefined, Num(-1), Undefined)}

\* the first one carries keys updateProduct does not allow
UpdatePayloads ==
    {[name |-> Str("n2"), id |-> Str(BogusId), createdAt |-> Str(MaxClock + 1)],
     Payload(Undefined, Undefined, Num(0), Undefined),
     Payload(Undefined, Undefined, Num(-1), Undefined)}
Amounts == {Num(1), Num(2), Num(0), Num(-1), Frac(1)}
AdjustOps == {"increaseStock", "decreaseStock"}

InitialStock == {1, 2}
InitialPayload(q) == Payload(Str("n1"), Undefined, Num(q), Num(1))

\* The collection is empty, or holds one product created earlier.
Init ==
    /\ \/ /\ store = [i \in AllIds |-> NoDoc]
          /\ nextId = 1
       \/ \E q \in InitialStock :
          /\ store = [i \in AllIds |->
                IF i = 1 THEN DocData(InitialPayload(q), 1, 0) ELSE NoDoc]
          /\ nextId = 2
    /\ now = 0
    /\ call = [c \in Callers |-> Idle]
    /\ calls = 0
    /\ base = [i \in Ids |-> IF store[i] = NoDoc THEN 0 ELSE store[i].stock_quantity]
    /\ net = [i \in Ids |-> 0]
    /\ deleted = {}

\* One step of caller c
Step(c) ==
    \/ \E p \in CreatePayloads : CreateCall(c, p)
    \/ CreateSet(c)
    \/ \E i \in AllIds, u \in UpdatePayloads : UpdateCall(c, i, u)
    \/ UpdateGet(c)
    \/ UpdateWrite(c)
    \/ UpdateRead(c)
    \/ \E i \in AllIds : DeleteGet(c, i)
    \/ DeleteDelete(c)
    \/ \E op \in AdjustOps, i \in AllIds, a \in Amounts : AdjustCall(c, op, i, a)
    \/ TxGet(c)
    \/ TxBody(c)
    \/ TxCommit(c)

\* Callers run concurrently: any caller takes the next step.
Next == Tick \/ \E c \in Callers : Step(c)

Spec == Init /\ [][Next]_vars

\* Sequential execution: a caller steps only while every other caller is free.
Alone(c) == \A d \in Callers \ {c} : Free(d)

NextSeq ==
    \/ Tick
    \/ \E c \in Callers :
        \/ Alone(c) /\ \E p \in CreatePayloads : CreateCall(c, p)
        \/ Alone(c) /\ CreateSet(c)
        \/ Alone(c) /\ \E i \in AllIds, u \in UpdatePayloads : UpdateCall(c, i, u)
        \/ Alone(c) /\ UpdateGet(c)
        \/ Alone(c) /\ UpdateWrite(c)
        \/ Alone(c) /\ UpdateRead(c)
        \/ Alone(c) /\ \E i \in AllIds : DeleteGet(c, i)
        \/ Alone(c) /\ DeleteDelete(c)
        \/ Alone(c) /\ \E op \in AdjustOps, i \in AllIds, a \in Amounts :
                            AdjustCall(c, op, i, a)
        \/ Alone(c) /\ TxGet(c)
        \/ Alone(c) /\ TxBody(c)
        \/ Alone(c) /\ TxCommit(c)

SpecSeq == Init /\ [][NextSeq]_vars

\* Stock adjustments alone, on one product that exists from the start.
ScenarioStock == {0, 4, 5}
ScenarioAmounts == {Num(1), Num(4), Num(5)}
ScenarioId == 1

InitAdjust ==
    /\ \E q \in ScenarioStock :
          store = [i \in AllIds |->
                IF i = ScenarioId THEN DocData(InitialPayload(q), ScenarioId, 0)
                ELSE NoDoc]
    /\ nextId = ScenarioId + 1
    /\ now = 0
    /\ call = [c \in Callers |-> Idle]
    /\ calls = 0
    /\ base = [i \in Ids |-> IF store[i] = NoDoc THEN 0 ELSE store[i].stock_quantity]
    /\ net = [i \in Ids |-> 0]
    /\ deleted = {}

NextAdjust ==
    \/ Tick
    \/ \E c \in Callers :
        \/ \E op \in AdjustOps, a \in ScenarioAmounts : AdjustCall(c, op, ScenarioId, a)
        \/ TxGet(c)
        \/ TxBody(c)
        \/ TxCommit(c)

SpecAdjust == InitAdjust /\ [][NextAdjust]_vars

\* Sequential calls of every operation, the callers taking turns, on a
\* collection that holds no product, one or two.
Turn(c) == Alone(c) /\ (Free(c) => c = (calls % NumCallers) + 1)

CrudCreates ==
    {Payload(Str("n1"), Undefined, Num(0), Undefined),
     Payload(Str("n3"), Str("d3"), Num(1), Num(2)),
     [name |-> Str("n4"), description |-> Undefined, stock_quantity |-> Num(1),
      low_stock_threshold |-> Undefined, id |-> Str(BogusId)],
     [name |-> Str("n5"), description |-> Undefined, stock_quantity |-> Num(1),
      low_stock_threshold |-> Undefined, createdAt |-> Str(MaxClock + 1)],
     Payload(Str(""), Undefined, Num(1), Undefined),
     Payload(Num(0), Undefined, Num(1), Undefined),
     Payload(Num(1), Undefined, Num(1), Undefined),
     Payload(Undefined, Undefined, Num(1), Undefined),
     Payload(Str("n1"), Undefined, Num(-1), Undefined),
     Payload(Str("n1"), Undefined, Frac(1), Undefined),
     Payload(Str("n1"), Undefined, Undefined, Undefined),
     Payload(Str("n1"), Undefined, Num(1), Num(-1)),
     Payload(Str("n1"), Undefined, Num(1), Frac(1))}
CrudUpdates ==
    {[name |-> Str("n2"), id |-> Str(BogusId), createdAt |-> Str(MaxClock + 1)],
     Payload(Undefined, Str("d2"), Num(0), Num(1)),
     Payload(Undefined, Undefined, Num(-1), Undefined),
     Payload(Undefined, Undefined, Frac(1), Undefined),
     Payload(Str("n2"), Undefined, Undefined, Num(-1)),
     Payload(Str("n2"), Undefined, Undefined, Frac(1))}
CrudAmounts == {Num(1), Num(0)}
Limits == {Undefined, Num(0), Num(-1), Frac(1), Num(1), Num(MaxIds + 1)}

InitCrud ==
    /\ \/ /\ store = [i \in AllIds |-> NoDoc]
          /\ nextId = 1
       \/ \E q \in InitialStock :
          /\ store = [i \in AllIds |->
                IF i = 1 THEN DocData(InitialPayload(q), 1, 0) ELSE NoDoc]
          /\ nextId = 2
       \/ /\ store = [i \in AllIds |->
                IF i \in Ids THEN DocData(InitialPayload(i - 1), i, 0) ELSE NoDoc]
          /\ nextId = MaxIds + 1
    /\ now = 0
    /\ call = [c \in Callers |-> Idle]
    /\ calls = 0
    /\ base = [i \in Ids |-> IF store[i] = NoDoc THEN 0 ELSE store[i].stock_quantity]
    /\ net = [i \in Ids |-> 0]
    /\ deleted = {}

NextCrud ==
    \/ Tick
    \/ \E c \in Callers :
        \/ Turn(c) /\ \E p \in CrudCreates : CreateCall(c, p)
        \/ Turn(c) /\ CreateSet(c)
        \/ Turn(c) /\ \E i \in AllIds, u \in CrudUpdates : UpdateCall(c, i, u)
        \/ Turn(c) /\ UpdateGet(c)
        \/ Turn(c) /\ UpdateWrite(c)
        \/ Turn(c) /\ UpdateRead(c)
        \/ Turn(c) /\ \E i \in AllIds : DeleteGet(c, i)
        \/ Turn(c) /\ DeleteDelete(c)
        \/ Turn(c) /\ \E op \in AdjustOps, i \in AllIds, a \in CrudAmounts :
                           AdjustCall(c, op, i, a)
        \/ Turn(c) /\ TxGet(c)
        \/ Turn(c) /\ TxBody(c)
        \/ Turn(c) /\ TxCommit(c)
        \/ Turn(c) /\ \E i \in AllIds : GetById(c, i)
        \/ Turn(c) /\ \E limit \in Limits : ListProducts(c, limit)
        \/ Turn(c) /\ ListLowStock(c)

SpecCrud == InitCrud /\ [][NextCrud]_vars

\* Concurrent stock adjustments on a collection of products that all exist.
\* Firestore answers every request in the end: a transaction that can take
\* its next step takes it.
DisjointAmounts == {Num(1)}

InitDisjoint ==
    /\ store = [i \in AllIds |->
            IF i \in Ids THEN DocData(InitialPayload(i), i, 0) ELSE NoDoc]
    /\ nextId = MaxIds + 1
    /\ now = 0
    /\ call = [c \in Callers |-> Idle]
    /\ calls = 0
    /\ base = [i \in Ids |-> store[i].stock_quantity]
    /\ net = [i \in Ids |-> 0]
    /\ deleted = {}

NextDisjoint ==
    \/ Tick
    \/ \E c \in Callers :
        \/ \E op \in AdjustOps, i \in Ids, a \in DisjointAmounts :
              AdjustCall(c, op, i, a)
        \/ TxGet(c)
        \/ TxBody(c)
        \/ TxCommit(c)

SpecDisjoint ==
    /\ InitDisjoint /\ [][NextDisjoint]_vars
    /\ \A c \in Callers :
          WF_vars(TxGet(c)) /\ WF_vars(TxBody(c)) /\ WF_vars(TxCommit(c))

\* ================================================================== properties
IsAdjust(c) == call[c].op \in AdjustOps
Finished(c) == call[c].pc = "done"
Succeeded(c) == Finished(c) /\ call[c].res.status = 200
InsufficientStock == HttpError(400, "Insufficient stock")
\* a strictly positive integer
StrictlyPositiveInteger(a) == a.t = "number" /\ ~a.half /\ a.v > 0

\* C1: in every reachable state every stored product has an integer
\* stock_quantity >= 0, whatever the interleaving of the callers' operations.
StockNeverNegative ==
    \A i \in AllIds : store[i] # NoDoc => store[i].stock_quantity \in Nat

\* A decrease that lost a race, read the record again and was refused.
RefusedAfterRetry ==
    \E c \in Callers :
        /\ Finished(c) /\ call[c].op = "decreaseStock"
        /\ call[c].res = InsufficientStock /\ call[c].attempt = 2

\* C2: from stock_quantity 5, two decreaseStock(id, 4) calls and nothing else on
\* the id: one call returns stock_quantity 1, the other fails with 400
\* 'Insufficient stock', and 1 is stored.
TwoDecreasesOfFour(c, d) ==
    /\ c # d /\ calls = 2 /\ base[ScenarioId] = 5
    /\ \A e \in {c, d} :
          /\ Finished(e) /\ call[e].op = "decreaseStock"
          /\ call[e].id = ScenarioId /\ call[e].amount = Num(4)
    /\ \A e \in Callers \ {c, d} : call[e].pc = "idle"

ConcurrentDecrease ==
    \A c, d \in Callers :
        TwoDecreasesOfFour(c, d) =>
            /\ store[ScenarioId].stock_quantity = 1
            /\ \/ /\ call[c].res = Ok([id |-> ScenarioId, stock_quantity |-> 1])
                  /\ call[d].res = InsufficientStock
               \/ /\ call[d].res = Ok([id |-> ScenarioId, stock_quantity |-> 1])
                  /\ call[c].res = InsufficientStock

\* The two calls overlapped: the loser's first attempt met the winner's commit.
ConcurrentDecreaseRaced ==
    \E c, d \in Callers : TwoDecreasesOfFour(c, d) /\ call[d].attempt = 2

\* C3: no lost updates: the stored stock_quantity is the quantity last set by
\* create or update plus the committed increases minus the committed decreases,
\* and every successful adjustment returns the quantity the sequential order of
\* the commits gives it.
NoLostUpdates ==
    /\ \A i \in Ids :
          store[i] # NoDoc => store[i].stock_quantity = base[i] + net[i]
    /\ \A c \in Callers :
          IsAdjust(c) /\ Succeeded(c) =>
              call[c].res.body.stock_quantity = call[c].serial

\* Two adjustments of one record both committed, one of them on its second attempt.
TwoAdjustmentsRaced ==
    \E c, d \in Callers :
        /\ c # d /\ IsAdjust(c) /\ IsAdjust(d) /\ call[c].id = call[d].id
        /\ Succeeded(c) /\ Succeeded(d) /\ call[c].attempt = 2

\* C4: a decreaseStock whose transaction read an existing record with less stock
\* than the amount fails with 'Insufficient stock' and commits nothing: the
\* store is the same after the failing step as before it.
InsufficientLeavesRecord ==
    [][\A c \in Callers :
          ( /\ call[c].pc = "tx_body" /\ call'[c].pc # "tx_body"
            /\ call[c].op = "decreaseStock"
            /\ call[c].snap.exists
            /\ call[c].snap.data.stock_quantity < call[c].amount.v )
          => /\ call'[c].pc = "done"
             /\ call'[c].res = InsufficientStock
             /\ call'[c].commits = 0
             /\ store' = store]_vars

\* A decrease was refused on its first attempt, the record still there.
RefusedAtOnce ==
    \E c \in Callers :
        /\ Finished(c) /\ call[c].op = "decreaseStock"
        /\ call[c].res = InsufficientStock /\ call[c].attempt = 1
        /\ store[call[c].id] # NoDoc

\* C5: a committed adjustment stores the quantity computed from the
\* stock_quantity stored immediately before the commit, also after a conflict
\* with another write and a retry: existence, sufficiency and the sum are
\* those of the record as it is then.
CommitFromFreshRead ==
    [][\A c \in Callers :
          (IsAdjust(c) /\ call'[c].commits = call[c].commits + 1)
          => /\ store[call[c].id] # NoDoc
             /\ call[c].op = "increaseStock" =>
                   store'[call[c].id].stock_quantity =
                       store[call[c].id].stock_quantity + call[c].amount.v
             /\ call[c].op = "decreaseStock" =>
                   /\ store[call[c].id].stock_quantity >= call[c].amount.v
                   /\ store'[call[c].id].stock_quantity =
                         store[call[c].id].stock_quantity - call[c].amount.v]_vars

\* An adjustment committed on its second attempt after an updateProduct wrote
\* the record.
RetriedAfterUpdate ==
    \E c, d \in Callers :
        /\ IsAdjust(c) /\ Succeeded(c) /\ call[c].attempt = 2
        /\ call[d].op = "updateProduct" /\ call[d].id = call[c].id
        /\ call[d].commits = 1

\* C6: once deleteProduct has committed, no record is stored under the id
\* again: a concurrent updateProduct never recreates it.
DeletedStaysDeleted == \A i \in deleted : store[i] = NoDoc

\* An update passed its existence check, the delete committed, the write failed.
UpdateLostToDelete ==
    \E c \in Callers :
        /\ Finished(c) /\ call[c].op = "updateProduct"
        /\ call[c].res = FirestoreError("NOT_FOUND") /\ call[c].id \in deleted

\* C7: an increaseStock or decreaseStock call either commits exactly one write
\* and returns the id and the stock_quantity that commit stored, or fails and
\* has committed nothing; running out of attempts is a failure.
AdjustOutcome ==
    \A c \in Callers :
        IsAdjust(c) =>
            /\ call[c].commits <= 1
            /\ ~Finished(c) => call[c].commits = 0
            /\ Finished(c) =>
                  \/ /\ call[c].res.status = 200
                     /\ call[c].commits = 1
                     /\ call[c].res.body =
                           [id |-> call[c].id,
                            stock_quantity |-> call[c].stored.stock_quantity]
                  \/ /\ call[c].res.status # 200
                     /\ call[c].res.error # ""
                     /\ call[c].commits = 0

\* A transaction used up its attempts.
AttemptsExhausted ==
    \E c \in Callers :
        /\ IsAdjust(c) /\ Finished(c) /\ call[c].res = FirestoreError("ABORTED")
        /\ call[c].attempt = MaxAttempts

\* C8: in sequential execution on a record with stock_quantity q,
\* increaseStock(id, a) returns and stores q + a, decreaseStock(id, a) with
\* a <= q returns and stores q - a (0 when a = q), and decreaseStock(id, a) with
\* a > q fails and leaves q stored.
SequentialAdjust ==
    [][\A c \in Callers :
          ( /\ IsAdjust(c) /\ call[c].pc \in {"tx_get", "tx_body", "tx_commit"}
            /\ call'[c].pc = "done" /\ store[call[c].id] # NoDoc )
          => LET i == call[c].id
                 q == store[i].stock_quantity
                 a == call[c].amount.v
             IN  IF call[c].op = "increaseStock"
                 THEN /\ call'[c].res = Ok([id |-> i, stock_quantity |-> q + a])
                      /\ store'[i].stock_quantity = q + a
                 ELSE IF a <= q
                 THEN /\ call'[c].res = Ok([id |-> i, stock_quantity |-> q - a])
                      /\ store'[i].stock_quantity = q - a
                 ELSE /\ call'[c].res.status # 200
                      /\ store'[i].stock_quantity = q]_vars

\* A decrease of the whole stock succeeded and left 0.
DecreasedToZero ==
    \E c \in Callers :
        /\ call[c].op = "decreaseStock" /\ Succeeded(c)
        /\ call[c].res.body.stock_quantity = 0
        /\ store[call[c].id].stock_quantity = 0

\* C9: increaseStock and decreaseStock with an amount that is no strictly
\* positive integer fail with 400 before the store is read or written, whether
\* or not the id exists.
InvalidAmountRejected ==
    /\ [](\A c \in Callers :
            IsAdjust(c) /\ ~StrictlyPositiveInteger(call[c].amount) =>
                /\ Finished(c)
                /\ call[c].res = HttpError(400, "amount must be an integer > 0")
                /\ call[c].attempt = 0 /\ ~call[c].read /\ call[c].commits = 0)
    /\ [][\A c \in Callers :
            ( /\ Free(c) /\ call'[c] # call[c] /\ call'[c].op \in AdjustOps
              /\ ~StrictlyPositiveInteger(call'[c].amount) )
            => store' = store]_vars

\* Amounts 0, -1 and 1.5 were all refused, one of them for a record that exists.
InvalidAmountsRefused ==
    \E c \in Callers :
        /\ IsAdjust(c) /\ Finished(c) /\ call[c].res.status = 400
        /\ call[c].amount \in {Num(0), Num(-1), Frac(1)}
        /\ store[call[c].id] # NoDoc

\* C10: updateProduct on an id with no record fails with 404 'Product not
\* found', also when the record is deleted between the existence check and
\* the write: no valid update that wrote nothing ends in another failure.
UpdateAbsentIsNotFound ==
    \A c \in Callers :
        ( /\ Finished(c) /\ call[c].op = "updateProduct"
          /\ call[c].commits = 0 /\ call[c].res.status # 400 )
        => call[c].res = HttpError(404, "Product not found")

\* C11: the write of a successful updateProduct(id, fields) changes, in the
\* record stored under id, only updatedAt and those of the four allowed fields
\* that fields provides; it adds no key, and every other record is unchanged.
UpdateFrame ==
    [][\A c \in Callers :
          (call[c].pc = "upd_write" /\ call'[c].pc = "upd_read")
          => LET i == call[c].id
                 fields == call[c].input
             IN  /\ DOMAIN store'[i] = DOMAIN store[i]
                 /\ \A k \in DOMAIN store[i] :
                       \/ k = "updatedAt"
                       \/ k \in Allowed /\ Has(fields, k)
                       \/ store'[i][k] = store[i][k]
                 /\ \A j \in AllIds \ {i} : store'[j] = store[j]]_vars

\* An update that carried id and createdAt among its fields has written its
\* name, and the record still has the id and createdAt it was created with.
UpdateWroteAllowedOnly ==
    \E c \in Callers :
        /\ call[c].pc = "upd_read"
        /\ Has(call[c].input, "id") /\ Has(call[c].input, "createdAt")
        /\ store[call[c].id] # NoDoc
        /\ store[call[c].id].name = call[c].input.name.s
        /\ store[call[c].id].id = call[c].id
        /\ store[call[c].id].createdAt # call[c].input.createdAt.s

\* C12: the commit of an increaseStock or decreaseStock on id changes only
\* stock_quantity and updatedAt of the record stored under id; its other fields
\* and every record stored under another id are unchanged.
AdjustFrame ==
    [][\A c \in Callers :
          (call[c].pc = "tx_commit" /\ call'[c].commits = call[c].commits + 1)
          => LET i == call[c].id
             IN  /\ DOMAIN store'[i] = DOMAIN store[i]
                 /\ \A k \in DOMAIN store[i] \ {"stock_quantity", "updatedAt"} :
                       store'[i][k] = store[i][k]
                 /\ \A j \in AllIds \ {i} : store'[j] = store[j]]_vars

\* An adjustment committed after the clock moved: the record it stored has a
\* new stock_quantity and updatedAt, and the name and createdAt it had.
AdjustKeptOtherFields ==
    \E c \in Callers :
        /\ IsAdjust(c) /\ Succeeded(c)
        /\ call[c].stored.stock_quantity # base[call[c].id]
        /\ call[c].stored.updatedAt > call[c].stored.createdAt
        /\ call[c].stored.name # ""
        /\ call[c].stored.id = call[c].id

\* C13: the write of every committed updateProduct, increaseStock or
\* decreaseStock leaves the record with an updatedAt not earlier than the one it
\* had just before and not earlier than its createdAt.
UpdatedAtNeverEarlier ==
    [][\A i \in Ids :
          (store[i] # NoDoc /\ store'[i] # NoDoc)
          => /\ store'[i].updatedAt >= store[i].updatedAt
             /\ store'[i].updatedAt >= store'[i].createdAt]_vars

\* the call caller c starts, and ends at once, in this step
Starts(c, op) == call'[c] # call[c] /\ Free(c) /\ call'[c].op = op
\* the elements of a sequence
Range(f) == {f[k] : k \in DOMAIN f}

\* C14: listLowStock returns exactly the stored records that have a
\* low_stock_threshold and a stock_quantity strictly less than it, each once:
\* none whose stock_quantity equals its threshold, none without a threshold.
LowStockExact ==
    [][\A c \in Callers :
          Starts(c, "listLowStock")
          => LET low == {i \in Ids :
                            /\ store[i] # NoDoc
                            /\ store[i].low_stock_threshold # Undefined
                            /\ store[i].stock_quantity <
                                  store[i].low_stock_threshold.v}
                 body == call'[c].res.body
             IN  /\ call'[c].res.status = 200
                 /\ Range(body) = {store[i] : i \in low}
                 /\ Range(call'[c].stored) = low
                 /\ Len(body) = Cardinality(low)]_vars

\* listLowStock has just returned one record of two: the other one has
\* stock_quantity 0 and no low_stock_threshold.
LowStockWithoutThreshold ==
    \E c \in Callers :
        /\ call[c].op = "listLowStock" /\ Succeeded(c) /\ call[c].n = calls
        /\ Len(call[c].res.body) = 1
        /\ \E i \in Ids :
              /\ store[i] # NoDoc
              /\ store[i].stock_quantity = 0
              /\ store[i].low_stock_threshold = Undefined

\* C15: for every valid payload p, createProduct(p) followed at once by
\* getProductById of the id returned gives a record with the name, description
\* ("" when p has none), stock_quantity and low_stock_threshold (absent when p
\* has none) of p, and with id, createdAt and updatedAt, createdAt = updatedAt.
\* In SpecCrud the call before the latest one is the other caller's.
CreateGetRoundTrip ==
    \A c, d \in Callers :
        ( /\ c # d
          /\ call[c].op = "createProduct" /\ Succeeded(c)
          /\ call[d].op = "getProductById" /\ Finished(d) /\ call[d].n = calls
          /\ call[d].id = call[c].res.body.id )
        => LET p == call[c].input
               r == call[d].res.body
           IN  /\ call[d].res.status = 200
               /\ r.name = p.name.s
               /\ r.description =
                     (IF p.description = Undefined THEN "" ELSE p.description.s)
               /\ r.stock_quantity = p.stock_quantity.v
               /\ r.low_stock_threshold = p.low_stock_threshold
               /\ r.id = call[c].id
               /\ r.createdAt = r.updatedAt

\* the call of caller c ends in this step
Ends(c) == call'[c] # call[c] /\ call'[c].pc = "done"
NotFound == HttpError(404, "Product not found")
\* an integer >= 0
NonNegativeInteger(x) == x.t = "number" /\ ~x.half /\ x.v >= 0
\* object o provides for key k something that is no integer >= 0
BadNumber(o, k) == Has(o, k) /\ ~NonNegativeInteger(o[k])
\* the call has an argument that its validation refuses
InvalidArgument(cl) ==
    \/ cl.op \in AdjustOps /\ ~StrictlyPositiveInteger(cl.amount)
    \/ /\ cl.op = "updateProduct"
       /\ \/ BadNumber(cl.input, "stock_quantity")
          \/ BadNumber(cl.input, "low_stock_threshold")

\* C16: deleteProduct(id) on an absent id fails with NotFound and changes
\* nothing; on an existing id it returns {id} and removes the record, and from
\* then on no record is stored under id, every getProductById, updateProduct,
\* increaseStock, decreaseStock and deleteProduct on id with valid arguments
\* fails with NotFound, and no listProducts or listLowStock returns the record.
DeleteRemovesForGood ==
    /\ [](\A i \in deleted : store[i] = NoDoc)
    /\ [][\A c \in Callers :
            /\ (Starts(c, "deleteProduct") /\ store[call'[c].id] = NoDoc)
               => /\ call'[c].res = NotFound /\ call'[c].pc = "done"
                  /\ UNCHANGED <<store, nextId, base, net, deleted>>
            /\ (call[c].pc = "del_delete" /\ call'[c] # call[c])
               => /\ call'[c].res = Ok([id |-> call[c].id])
                  /\ store[call[c].id] # NoDoc /\ store'[call[c].id] = NoDoc
                  /\ \A j \in AllIds \ {call[c].id} : store'[j] = store[j]
            /\ ( /\ Ends(c) /\ call'[c].id \in deleted
                 /\ call'[c].op \in AdjustOps \cup
                       {"getProductById", "updateProduct", "deleteProduct"} )
               => \/ call'[c].res = NotFound
                  \/ InvalidArgument(call'[c]) /\ call'[c].res.status = 400
            /\ (Starts(c, "listProducts") \/ Starts(c, "listLowStock"))
               => Range(call'[c].stored) \cap deleted = {}]_vars

\* After a delete of a record, a valid stock adjustment and a second delete
\* on its id have both failed with NotFound.
GoneForEveryOperation ==
    \E c, d \in Callers :
        /\ Finished(c) /\ Finished(d) /\ call[c].id \in deleted
        /\ call[d].id = call[c].id
        /\ call[c].op = "deleteProduct" /\ call[c].res = NotFound
        /\ call[d].op \in AdjustOps /\ call[d].res = NotFound
        /\ StrictlyPositiveInteger(call[d].amount)

\* C17: createProduct fails with 400 and stores nothing when name is empty or
\* no string, when stock_quantity is no integer >= 0, or when
\* low_stock_threshold is provided and is no integer >= 0; updateProduct
\* fails with 400 and leaves every record unchanged when the stock_quantity or
\* low_stock_threshold provided is no integer >= 0.
InvalidFieldsRejected ==
    [][\A c \in Callers :
          /\ ( /\ Starts(c, "createProduct")
               /\ LET p == call'[c].input
                  IN  \/ p.name.t # "string" \/ p.name.s = ""
                      \/ ~NonNegativeInteger(p.stock_quantity)
                      \/ BadNumber(p, "low_stock_threshold") )
             => /\ call'[c].pc = "done" /\ call'[c].res.status = 400
                /\ UNCHANGED <<store, nextId>>
          /\ ( /\ Starts(c, "updateProduct")
               /\ \/ BadNumber(call'[c].input, "stock_quantity")
                  \/ BadNumber(call'[c].input, "low_stock_threshold") )
             => /\ call'[c].pc = "done" /\ call'[c].res.status = 400
                /\ UNCHANGED store]_vars

\* A create whose name is a number and an update of a stored record with a
\* fractional low_stock_threshold were both refused.
InvalidFieldsRefused ==
    \E c, d \in Callers :
        /\ call[c].op = "createProduct" /\ Finished(c)
        /\ call[c].res.status = 400 /\ call[c].input.name = Num(1)
        /\ call[d].op = "updateProduct" /\ Finished(d)
        /\ call[d].res.status = 400 /\ store[call[d].id] # NoDoc
        /\ call[d].input.low_stock_threshold = Frac(1)

\* C18: listProducts(limit) returns the stored records ordered by createdAt
\* descending: the first min(limit, number of records) of that order when
\* limit is a positive integer, and all of them when limit is absent, zero,
\* negative or no integer.
ListOrderedAndCapped ==
    [][\A c \in Callers :
          Starts(c, "listProducts")
          => LET limit == call'[c].input
                 S == {i \in Ids : store[i] # NoDoc}
                 N == IF StrictlyPositiveInteger(limit) /\ limit.v < Cardinality(S)
                      THEN limit.v ELSE Cardinality(S)
             IN  /\ call'[c].res.status = 200
                 /\ \E f \in Orders(S) :
                       /\ \A a, b \in DOMAIN f :
                             a < b => store[f[a]].createdAt >= store[f[b]].createdAt
                       /\ call'[c].res.body = [k \in 1..N |-> store[f[k]]]]_vars

\* listProducts(1) has just returned the later created of two records.
ListCappedToNewest ==
    \E c \in Callers :
        /\ call[c].op = "listProducts" /\ Succeeded(c) /\ call[c].n = calls
        /\ call[c].input = Num(1) /\ Len(call[c].res.body) = 1
        /\ \E i \in Ids :
              /\ store[i] # NoDoc
              /\ store[i].createdAt < call[c].res.body[1].createdAt

\* C19: getProductById changes no stored state, and two calls
\* getProductById(id), one right after the other, return the same data or
\* both fail with NotFound.
GetRepeatable ==
    /\ [](\A c, d \in Callers :
            ( /\ call[c].op = "getProductById" /\ Finished(c)
              /\ call[d].op = "getProductById" /\ Finished(d)
              /\ call[d].id = call[c].id /\ call[d].n = call[c].n + 1 )
            => call[d].res = call[c].res)
    /\ [][\A c \in Callers :
            Starts(c, "getProductById")
            => UNCHANGED <<store, nextId, base, net, deleted>>]_vars

\* Two calls getProductById(id) in a row returned the same record.
GotTwice ==
    \E c, d \in Callers :
        /\ call[c].op = "getProductById" /\ Succeeded(c)
        /\ call[d].op = "getProductById" /\ Succeeded(d)
        /\ call[d].id = call[c].id /\ call[d].n = call[c].n + 1
        /\ call[d].res.body = store[call[d].id]

\* caller c is inside runTransaction
InTransaction(c) == call[c].pc \in {"tx_get", "tx_body", "tx_commit"}
\* caller c commits a write in this step
Commits(c) == call'[c].commits = call[c].commits + 1

\* C20: a transaction of increaseStock or decreaseStock on id A comes into
\* conflict only through a write committed to the record of A, and fails an
\* attempt only when in conflict; and every adjustment that has started
\* completes, whatever the adjustments on other ids do.
DisjointIdsIndependent ==
    /\ [][\A c \in Callers :
            /\ (call'[c].stale /\ ~call[c].stale)
               => \E d \in Callers \ {c} : Commits(d) /\ call[d].id = call[c].id
            /\ ( /\ call[c].pc = "tx_commit" /\ call'[c].pc # "tx_commit"
                 /\ ~Commits(c) )
               => call[c].stale]_vars
    /\ \A c \in Callers : InTransaction(c) ~> Finished(c)

\* An adjustment committed on one id after another one had read the record of
\* a different id and before that one's commit, and left it without conflict.
CommittedBesideAnother ==
    \E c, d \in Callers :
        /\ IsAdjust(c) /\ Succeeded(c) /\ call[c].attempt = 1
        /\ call[c].stored.updatedAt = MaxClock
        /\ call[d].pc = "tx_commit" /\ call[d].ts < MaxClock
        /\ call[d].id # call[c].id /\ call[d].read /\ ~call[d].stale

\* C21 as stated: an increaseStock or decreaseStock that runs while
\* deleteProduct commits on its id, and has not committed before, fails with
\* NotFound; no adjustment creates a record, and after the delete has
\* committed no record is stored under the id.
AdjustAfterDeleteNotFound ==
    /\ [](\A i \in deleted : store[i] = NoDoc)
    /\ [][\A c \in Callers :
            /\ (IsAdjust(c) /\ store[call[c].id] = NoDoc)
               => store'[call[c].id] = NoDoc
            /\ (InTransaction(c) /\ Ends(c) /\ call[c].id \in deleted)
               => call'[c].res = NotFound]_vars

\* C21 amended: such an adjustment commits nothing and fails: with NotFound
\* when its attempt reads after the delete, with 'Insufficient stock' when it
\* is a decrease refused on a read made before the delete, and with the
\* rejection of runTransaction when the delete is the conflict that uses up
\* its attempts; no adjustment creates a record, and after the delete has
\* committed no record is stored under the id.
AdjustAfterDeleteFails ==
    /\ [](\A i \in deleted : store[i] = NoDoc)
    /\ [][\A c \in Callers :
            /\ (IsAdjust(c) /\ store[call[c].id] = NoDoc)
               => store'[call[c].id] = NoDoc
            /\ (InTransaction(c) /\ Ends(c) /\ call[c].id \in deleted)
               => /\ ~Commits(c) /\ store' = store
                  /\ \/ call'[c].res = NotFound /\ ~call[c].snap.exists
                     \/ /\ call'[c].res = InsufficientStock
                        /\ call[c].op = "decreaseStock" /\ call[c].snap.exists
                        /\ call[c].snap.data.stock_quantity < call[c].amount.v
                     \/ /\ call'[c].res = FirestoreError("ABORTED")
                        /\ call[c].attempt = MaxAttempts /\ call[c].stale]_vars

\* An adjustment read the record, lost its attempt to the delete, read again
\* and failed with NotFound.
AdjustLostToDelete ==
    \E c \in Callers :
        /\ IsAdjust(c) /\ Finished(c) /\ call[c].res = NotFound
        /\ call[c].attempt = 2 /\ call[c].id \in deleted
        /\ call[c].commits = 0

\* C22: every updateProduct call that returns successfully returns a record
\* for its id that carries id, name, stock_quantity, createdAt and updatedAt,
\* under any interleaving with deleteProduct or other mutations.
UpdateReturnsProduct ==
    \A c \in Callers :
        (call[c].op = "updateProduct" /\ Succeeded(c))
        => /\ {"id", "name", "stock_quantity", "createdAt", "updatedAt"}
                 \subseteq DOMAIN call[c].res.body
           /\ call[c].res.body.id = call[c].id

\* C23: of the deleteProduct calls on the id of a record, at most one
\* returns {id}, under any interleaving.
OneDeleteSucceeds ==
    \A c, d \in Callers :
        ( /\ call[c].op = "deleteProduct" /\ Succeeded(c)
          /\ call[d].op = "deleteProduct" /\ Succeeded(d)
          /\ call[d].id = call[c].id )
        => c = d

\* C24: every stored record has as id the key it is stored under and distinct
\* records have distinct ids; a record is created with the createdAt and
\* updatedAt read from the clock; getProductById(k) returns a record whose id
\* is k; and no operation changes the id or createdAt of a stored record.
GeneratedIdAndTimestamps ==
    /\ [](\A i \in Ids : store[i] # NoDoc =>
            /\ store[i].id = i
            /\ \A j \in Ids \ {i} : store[j] # NoDoc => store[j].id # store[i].id)
    /\ [](\A c \in Callers :
            (call[c].op = "getProductById" /\ Succeeded(c))
            => call[c].res.body.id = call[c].id)
    /\ [][\A i \in Ids :
            /\ (store[i] = NoDoc /\ store'[i] # NoDoc)
               => /\ store'[i].createdAt <= now
                  /\ store'[i].updatedAt = store'[i].createdAt
            /\ (store[i] # NoDoc /\ store'[i] # NoDoc)
               => /\ store'[i].id = store[i].id
                  /\ store'[i].createdAt = store[i].createdAt]_vars

\* AdjustStock(id, delta) on a record with stock_quantity q: the quantity it
\* leaves stored, and what it reports
AdjustStockStores(q, delta) == IF q + delta < 0 THEN q ELSE q + delta
AdjustStockResult(id, q, delta) ==
    IF q + delta < 0 THEN InsufficientStock
    ELSE Ok([id |-> id, stock_quantity |-> q + delta])

\* C25: on an existing record with stock_quantity q, increaseStock(id, a) has
\* the outcome and final state of AdjustStock(id, +a) and decreaseStock(id, a)
\* those of AdjustStock(id, -a): InsufficientStock and q left stored exactly
\* when q + delta < 0, and otherwise q + delta stored and returned.
SignedDelta ==
    [][\A c \in Callers :
          (InTransaction(c) /\ Ends(c) /\ store[call[c].id] # NoDoc)
          => LET i == call[c].id
                 q == store[i].stock_quantity
                 delta == IF call[c].op = "increaseStock" THEN call[c].amount.v
                          ELSE 0 - call[c].amount.v
             IN  /\ call'[c].res = AdjustStockResult(i, q, delta)
                 /\ store'[i].stock_quantity = AdjustStockStores(q, delta)
                 /\ (q + delta < 0) => store' = store]_vars

\* On one record a decrease was refused for want of stock and an increase
\* was stored.
RefusedAndIncreased ==
    \E c, d \in Callers :
        /\ call[c].op = "decreaseStock" /\ Finished(c)
        /\ call[c].res = InsufficientStock
        /\ call[d].op = "increaseStock" /\ Succeeded(d)
        /\ call[d].id = call[c].id
        /\ store[call[d].id].stock_quantity = call[d].res.body.stock_quantity
====
